---- MODULE Spec2Model ----
(***************************************************************************)
(* State-machine model of cli_wrapper.py: BashSession (the agent loop      *)
(* process_bash_command, the router process_tool_calls, the executor       *)
(* _handle_bash_command) and SessionLogger (the token ledger).             *)
(*                                                                         *)
(* Text is modelled as a sequence of tokens; a token is either a           *)
(* whitespace character or a non-whitespace chunk, so that str.strip(),    *)
(* concatenation, emptiness (Python truthiness) and prefixes are computed. *)
(* The emoji that starts the dry-run marker and the log prefixes is left   *)
(* out of the string literals (the parser accepts ASCII only).             *)
(***************************************************************************)
EXTENDS Integers, Sequences, FiniteSets, TLC

VARIABLES
    no_agi,               \* BashSession.no_agi
    environment,          \* BashSession.environment
    os_environ,           \* the ambient process environment, os.environ
    messages,             \* BashSession.messages
    current_tool_calls,   \* BashSession.current_tool_calls
    total_input_tokens,   \* SessionLogger.total_input_tokens
    total_output_tokens,  \* SessionLogger.total_output_tokens
    pc,                   \* position of process_bash_command
    response,             \* local `response` of process_bash_command
    results,              \* local `results` of process_tool_calls
    proc,                 \* what subprocess.run did for the last invocation
    idx,                  \* position of the for loop of process_tool_calls
    calls,                \* provider calls made by the current run
    blocks,               \* content blocks received by the current run
    spawns,               \* subprocess.run calls made by the session
    cost_logs,            \* log_total_cost calls made by the session
    printed,              \* what print() wrote for the current run
    outcome,              \* how the current run ended
    run_args,             \* the arguments process_bash_command was called with
    updates               \* the arguments of the update_token_usage calls made

vars == << no_agi, environment, os_environ, messages, current_tool_calls,
           total_input_tokens, total_output_tokens, pc, response, results,
           proc, idx, calls, blocks, spawns, cost_logs, printed, outcome,
           run_args, updates >>

-----------------------------------------------------------------------------
(* Bounds *)

\* provider calls a run is followed for
MaxRounds == 3
\* content blocks the responses of a run carry in total
MaxBlocks == 3
\* the largest token count of one ledger update
MaxTokens == 2
\* ledger updates followed when the ledger is exercised alone
MaxUpdates == 3
\* turns of the history a run is started with
MaxHistory == 2

-----------------------------------------------------------------------------
(* Text *)

Whitespace == {" ", "\n"}

RECURSIVE lstrip(_)
lstrip(s) ==
    IF s = <<>> THEN <<>>
    ELSE IF Head(s) \in Whitespace THEN lstrip(Tail(s)) ELSE s

RECURSIVE rstrip(_)
rstrip(s) ==
    IF s = <<>> THEN <<>>
    ELSE IF s[Len(s)] \in Whitespace THEN rstrip(SubSeq(s, 1, Len(s) - 1)) ELSE s

\* str.strip()
strip(s) == rstrip(lstrip(s))

\* str.startswith
StartsWith(s, p) == Len(s) >= Len(p) /\ SubSeq(s, 1, Len(p)) = p

\* None, as a value distinct from every text the inputs hold
None == <<"None">>

\* Python truthiness of a str or None
Truthy(s) == s # None /\ s # <<>>

RestartedText == <<"Bash session restarted.">>
NoCommandText == <<"No command provided to execute.">>
FailedText == <<"Command execution failed.">>
DryRunMarker == <<"Dry Run:">>
DryRunPrefix == DryRunMarker \o <<" ", "Would execute command:", " ">>
DryRunTag == <<"[DRY RUN MODE ENABLED]", " ">>

-----------------------------------------------------------------------------
(* Inputs: what the provider, the shell and the caller may supply *)

Envs == {"env0", "env1"}

Commands == {<<>>, <<"ls">>}

\* tool_call.input of a bash invocation; None is an absent "command" key
BashInputs == [command : Commands \cup {None}, restart : BOOLEAN]

\* ids are assigned by the provider, one per tool-use block
ToolId(round, i) == round * 10 + i

TextAt(i) == <<"text", ToString(i)>>

TextBlock(t) == [type |-> "text", text |-> t]
ToolUseBlock(id, name, input) ==
    [type |-> "tool_use", id |-> id, name |-> name, input |-> input]

\* the blocks a response of the given round may carry at position i
Blocks(round, i) ==
    {TextBlock(TextAt(i))}
    \cup {ToolUseBlock(ToolId(round, i), "bash", inp) : inp \in BashInputs}
    \cup {ToolUseBlock(ToolId(round, i), "str_replace_editor",
                       [command |-> None, restart |-> FALSE])}

\* the contents of exactly n blocks
RECURSIVE ContentsOfLen(_, _)
ContentsOfLen(round, n) ==
    IF n = 0 THEN { <<>> }
    ELSE { Append(c, b) : c \in ContentsOfLen(round, n - 1),
                          b \in Blocks(round, n) }

\* the contents of at most n blocks
Contents(round, n) == UNION { ContentsOfLen(round, k) : k \in 0..n }

\* response.usage
Usages == { [input_tokens |-> 3, output_tokens |-> 5] }

StopReasons == {"tool_use", "end_turn"}

Responses(round, n) ==
    [stop_reason : StopReasons, content : Contents(round, n), usage : Usages]

NoResponse == [stop_reason |-> "none", content |-> <<>>,
               usage |-> [input_tokens |-> 0, output_tokens |-> 0]]

Stdouts == { <<>>, <<" ", "hi", "\n">> }
Stderrs == { <<" ">>, <<"err", "\n">> }
ReturnCodes == {0, 1}
FailureMessages == { <<>>, <<"boom">> }

\* what subprocess.run does: it returns a CompletedProcess or raises
ProcOutcomes ==
    [raises : {FALSE}, message : {<<>>}, returncode : ReturnCodes,
     stdout : Stdouts, stderr : Stderrs]
    \cup
    [raises : {TRUE}, message : FailureMessages, returncode : {0},
     stdout : {<<>>}, stderr : {<<>>}]

Prompts == { <<"list", " ", "files">> }

\* conversation_history: turns of the stored conversation
Histories ==
    { << [role |-> "user", content |-> <<"hello">>],
         [role |-> "system", content |-> <<"note">>],
         [role |-> "assistant", content |-> <<"hi">>] >> }

-----------------------------------------------------------------------------
(* BashSession._handle_bash_command *)

ContentResult(t) == [key |-> "content", value |-> t]
ErrorResult(t) == [key |-> "error", value |-> t]

\* the result dict, the environment afterwards, and whether a subprocess ran
Handled(result, env, spawned) ==
    [result |-> result, environment |-> env, spawned |-> spawned]

\* the executor without its dry-run branch
_handle_bash_command_NoDryRun(input, env, ambient, dry, run) ==
    IF input.restart
    THEN Handled(ContentResult(RestartedText), ambient, FALSE)
    ELSE IF ~Truthy(input.command)
    THEN Handled(ErrorResult(NoCommandText), env, FALSE)
    ELSE IF run.raises
    THEN Handled(ErrorResult(run.message), env, TRUE)
    ELSE LET output == strip(run.stdout)
             error_output == strip(run.stderr)
         IN  IF run.returncode # 0
             THEN Handled(ErrorResult(IF Truthy(error_output) THEN error_output
                                      ELSE FailedText), env, TRUE)
             ELSE Handled(ContentResult(output), env, TRUE)

\* the executor with the no-command check ahead of the restart check
_handle_bash_command_CommandFirst(input, env, ambient, dry, run) ==
    IF ~Truthy(input.command)
    THEN Handled(ErrorResult(NoCommandText), env, FALSE)
    ELSE IF input.restart
    THEN Handled(ContentResult(RestartedText), ambient, FALSE)
    ELSE _handle_bash_command_NoDryRun(input, env, ambient, FALSE, run)

\* the executor with the dry-run check ahead of the no-command check
_handle_bash_command_DryFirst(input, env, ambient, dry, run) ==
    IF input.restart
    THEN Handled(ContentResult(RestartedText), ambient, FALSE)
    ELSE IF dry
    THEN Handled(ContentResult(DryRunPrefix \o
                               (IF input.command = None THEN <<>>
                                ELSE input.command)), env, FALSE)
    ELSE _handle_bash_command_NoDryRun(input, env, ambient, FALSE, run)

\* the executor taking any output on stderr for a failure
_handle_bash_command_StderrFails(input, env, ambient, dry, run) ==
    IF input.restart
    THEN Handled(ContentResult(RestartedText), ambient, FALSE)
    ELSE IF ~Truthy(input.command)
    THEN Handled(ErrorResult(NoCommandText), env, FALSE)
    ELSE IF dry
    THEN Handled(ContentResult(DryRunPrefix \o input.command), env, FALSE)
    ELSE IF run.raises
    THEN Handled(ErrorResult(run.message), env, TRUE)
    ELSE LET output == strip(run.stdout)
             error_output == strip(run.stderr)
         IN  IF run.returncode # 0 \/ Truthy(error_output)
             THEN Handled(ErrorResult(IF Truthy(error_output) THEN error_output
                                      ELSE FailedText), env, TRUE)
             ELSE Handled(ContentResult(output), env, TRUE)

\* the executor reporting stdout when a failed command wrote nothing to stderr
_handle_bash_command_StdoutFallback(input, env, ambient, dry, run) ==
    IF input.restart
    THEN Handled(ContentResult(RestartedText), ambient, FALSE)
    ELSE IF ~Truthy(input.command)
    THEN Handled(ErrorResult(NoCommandText), env, FALSE)
    ELSE IF dry
    THEN Handled(ContentResult(DryRunPrefix \o input.command), env, FALSE)
    ELSE IF run.raises
    THEN Handled(ErrorResult(run.message), env, TRUE)
    ELSE LET output == strip(run.stdout)
             error_output == strip(run.stderr)
         IN  IF run.returncode # 0
             THEN Handled(ErrorResult(IF Truthy(error_output) THEN error_output
                                      ELSE IF Truthy(output) THEN output
                                      ELSE FailedText), env, TRUE)
             ELSE Handled(ContentResult(output), env, TRUE)

\* an executor that takes the ambient environment afresh for every command
_handle_bash_command_FreshEnv(input, env, ambient, dry, run) ==
    IF input.restart THEN Handled(ContentResult(RestartedText), ambient, FALSE)
    ELSE IF ~Truthy(input.command)
    THEN Handled(ErrorResult(NoCommandText), env, FALSE)
    ELSE IF dry
    THEN Handled(ContentResult(DryRunPrefix \o input.command), env, FALSE)
    ELSE IF run.raises THEN Handled(ErrorResult(run.message), ambient, TRUE)
    ELSE LET output == strip(run.stdout)
             error_output == strip(run.stderr)
         IN  IF run.returncode # 0
             THEN Handled(ErrorResult(IF Truthy(error_output)
                                      THEN error_output ELSE FailedText),
                          ambient, TRUE)
             ELSE Handled(ContentResult(output), ambient, TRUE)

_handle_bash_command(input, env, ambient, dry, run) ==
    IF input.restart
    THEN Handled(ContentResult(RestartedText), ambient, FALSE)
    ELSE IF ~Truthy(input.command)
    THEN Handled(ErrorResult(NoCommandText), env, FALSE)
    ELSE IF dry
    THEN Handled(ContentResult(DryRunPrefix \o input.command), env, FALSE)
    ELSE IF run.raises
    THEN Handled(ErrorResult(run.message), env, TRUE)
    ELSE LET output == strip(run.stdout)
             error_output == strip(run.stderr)
         IN  IF run.returncode # 0
             THEN Handled(ErrorResult(IF Truthy(error_output) THEN error_output
                                      ELSE FailedText), env, TRUE)
             ELSE Handled(ContentResult(output), env, TRUE)

\* whether the invocation reaches subprocess.run
Executes(input, dry) == ~input.restart /\ Truthy(input.command) /\ ~dry

NoProc == [raises |-> FALSE, message |-> <<>>, returncode |-> 0,
           stdout |-> <<>>, stderr |-> <<>>]

\* what the shell may do for an invocation: nothing when it is not reached
Outcomes(input, dry) == IF Executes(input, dry) THEN ProcOutcomes ELSE {NoProc}

-----------------------------------------------------------------------------
(* BashSession.process_tool_calls *)

\* result.get("error") is truthy
HasError(result) == result.key = "error" /\ Truthy(result.value)

\* the tool-result envelope built from a result dict
Envelope(id, result) ==
    [type |-> "tool_result",
     content |-> << [type |-> "text",
                     text |-> IF HasError(result) THEN result.value
                              ELSE IF result.key = "content" THEN result.value
                              ELSE <<>>] >>,
     tool_use_id |-> id,
     is_error |-> HasError(result)]

\* a router that takes every tool invocation for a bash one
IsBashCall_AnyTool(block) == block.type = "tool_use"

IsBashCall(block) == block.type = "tool_use" /\ block.name = "bash"

\* tool_call.input.get("command", ""): an absent key shows as ""
ShownCommand(input) == IF input.command = None THEN <<>> ELSE input.command

\* process_bash_command has not been called
NoArgs == [bash_prompt |-> None, conversation_history |-> <<>>]

-----------------------------------------------------------------------------
(* Initial state: a constructed session with its logger set *)

Init ==
    /\ no_agi \in BOOLEAN
    /\ os_environ = "env0"
    /\ environment = os_environ
    /\ messages = <<>>
    /\ current_tool_calls = <<>>
    /\ total_input_tokens = 0
    /\ total_output_tokens = 0
    /\ pc = "Idle"
    /\ response = NoResponse
    /\ results = <<>>
    /\ proc = NoProc
    /\ idx = 0
    /\ calls = 0
    /\ blocks = 0
    /\ spawns = 0
    /\ cost_logs = 0
    /\ printed = None
    /\ outcome = "none"
    /\ run_args = NoArgs
    /\ updates = <<>>

-----------------------------------------------------------------------------
(* The process environment changes outside the session.  The session is   *)
(* single-threaded and process_bash_command is synchronous, so other code *)
(* of the process runs only while no run is in progress; the change is    *)
(* followed between the construction of the session and its run.          *)

AmbientChange ==
    /\ pc = "Idle"
    /\ \E e \in Envs \ {os_environ} : os_environ' = e
    /\ UNCHANGED << run_args, updates, proc, blocks, no_agi, environment, messages, current_tool_calls,
                    total_input_tokens, total_output_tokens, pc, response,
                    results, idx, calls, spawns, cost_logs, printed, outcome >>

-----------------------------------------------------------------------------
(* BashSession.process_bash_command *)

\* a conversion that keeps every turn of the history, whatever its role
ApiMessages_AllTurns(history) ==
    [i \in 1..Len(history) |->
        [role |-> history[i].role,
         content |-> << TextBlock(history[i].content) >>]]

\* the history converted to API format: user and assistant turns only
RECURSIVE ApiMessages(_)
ApiMessages(history) ==
    IF history = <<>> THEN <<>>
    ELSE LET msg == Head(history)
         IN  (IF msg.role \in {"user", "assistant"}
              THEN << [role |-> msg.role,
                       content |-> << TextBlock(msg.content) >>] >>
              ELSE <<>>) \o ApiMessages(Tail(history))

\* lines 231-252: build the message list of the first provider call
StartRun(bash_prompt, conversation_history) ==
    /\ pc = "Idle"
    /\ LET prompt == IF no_agi THEN DryRunTag \o bash_prompt ELSE bash_prompt
       IN  messages' = ApiMessages(conversation_history)
                         \o << [role |-> "user",
                                content |-> << TextBlock(prompt) >>] >>
    /\ pc' = "AwaitingResponse"
    /\ calls' = 0
    /\ blocks' = 0
    /\ printed' = None
    /\ outcome' = "none"
    /\ response' = NoResponse
    /\ run_args' = [bash_prompt |-> bash_prompt,
                    conversation_history |-> conversation_history]
    /\ UNCHANGED << proc, no_agi, environment, os_environ, current_tool_calls,
                    total_input_tokens, total_output_tokens, results, idx,
                    spawns, cost_logs, updates >>

\* lines 255-262: client.beta.messages.create returns a response.  A run is
\* followed for MaxRounds calls; the response sequence holds a response that
\* is not a tool-use one at the latest then.
ProviderCall ==
    /\ pc = "AwaitingResponse"
    /\ calls < MaxRounds
    /\ \E resp \in Responses(calls + 1, MaxBlocks - blocks) :
          /\ (calls + 1 = MaxRounds => resp.stop_reason # "tool_use")
          /\ response' = resp
          /\ blocks' = blocks + Len(resp.content)
    /\ calls' = calls + 1
    /\ pc' = "RecordUsage"
    /\ UNCHANGED << run_args, updates, proc, no_agi, environment, os_environ, messages,
                    current_tool_calls, total_input_tokens,
                    total_output_tokens, results, idx, spawns, cost_logs,
                    printed, outcome >>

\* a provider fault that is swallowed: the loop goes on to the next call
ProviderFail_Retry ==
    /\ pc = "AwaitingResponse"
    /\ calls < MaxRounds
    /\ calls' = calls + 1
    /\ UNCHANGED << run_args, updates, proc, blocks, no_agi, environment,
                    os_environ, messages, current_tool_calls,
                    total_input_tokens, total_output_tokens, response, results,
                    idx, spawns, cost_logs, printed, pc, outcome >>

\* lines 255-262 and 309-312: the provider call raises; the fault is logged
\* and re-raised
ProviderFail ==
    /\ pc = "AwaitingResponse"
    /\ calls < MaxRounds
    /\ calls' = calls + 1
    /\ pc' = "Done"
    /\ outcome' = "Raised"
    /\ UNCHANGED << run_args, updates, proc, blocks, no_agi, environment, os_environ, messages,
                    current_tool_calls, total_input_tokens,
                    total_output_tokens, response, results, idx, spawns,
                    cost_logs, printed >>

\* a ledger that stores the last count
AddTokens_Overwrite(total, tokens) == tokens

\* total += tokens
AddTokens(total, tokens) == total + tokens

\* a ledger update that leaves the counters alone
update_token_usage_Skip(input_tokens, output_tokens) ==
    /\ UNCHANGED << total_input_tokens, total_output_tokens >>
    /\ updates' = Append(updates, << input_tokens, output_tokens >>)

\* SessionLogger.update_token_usage
update_token_usage(input_tokens, output_tokens) ==
    /\ total_input_tokens' = AddTokens(total_input_tokens, input_tokens)
    /\ total_output_tokens' = AddTokens(total_output_tokens, output_tokens)
    /\ updates' = Append(updates, << input_tokens, output_tokens >>)

\* lines 265-274
RecordUsage ==
    /\ pc = "RecordUsage"
    /\ update_token_usage(response.usage.input_tokens,
                          response.usage.output_tokens)
    /\ pc' = "AppendAssistant"
    /\ UNCHANGED << run_args, proc, blocks, no_agi, environment, os_environ, messages,
                    current_tool_calls, response, results, idx, calls,
                    spawns, cost_logs, printed, outcome >>

\* an assistant turn that takes the place of the last message
AppendAssistant_Replace ==
    /\ pc = "AppendAssistant"
    /\ messages' = [messages EXCEPT ![Len(messages)] =
                       [role |-> "assistant", content |-> response.content]]
    /\ pc' = "CheckStop"
    /\ UNCHANGED << run_args, updates, proc, blocks, no_agi, environment,
                    os_environ, current_tool_calls, total_input_tokens,
                    total_output_tokens, response, results, idx, calls,
                    spawns, cost_logs, printed, outcome >>

\* lines 277-285: text blocks pass as text, the others as their dump
AppendAssistant ==
    /\ pc = "AppendAssistant"
    /\ messages' = Append(messages,
                          [role |-> "assistant", content |-> response.content])
    /\ pc' = "CheckStop"
    /\ UNCHANGED << run_args, updates, proc, blocks, no_agi, environment, os_environ, current_tool_calls,
                    total_input_tokens, total_output_tokens, response,
                    results, idx, calls, spawns, cost_logs, printed, outcome >>

\* response.content[0].text evaluates without a fault
HasFirstText(resp) == Len(resp.content) > 0 /\ resp.content[1].type = "text"

\* a loop that never leaves on the stop reason
Breaks_Never(resp) == FALSE

\* the loop leaves on a response that is not a tool-use one
Breaks(resp) == resp.stop_reason # "tool_use"

\* a final response whose first block has no text yields an empty answer
CheckStop_SilentAnswer ==
    /\ pc = "CheckStop"
    /\ IF Breaks(response)
       THEN /\ printed' = IF HasFirstText(response)
                          THEN response.content[1].text ELSE <<>>
            /\ outcome' = "FinalAnswer"
            /\ pc' = "LogCost"
            /\ UNCHANGED << results, idx, current_tool_calls >>
       ELSE /\ results' = <<>>
            /\ current_tool_calls' = <<>>
            /\ idx' = 1
            /\ pc' = "ProcessToolCalls"
            /\ UNCHANGED << printed, outcome >>
    /\ UNCHANGED << run_args, updates, proc, blocks, no_agi, environment,
                    os_environ, messages, total_input_tokens,
                    total_output_tokens, response, calls, spawns, cost_logs >>

\* lines 287-292, and 189-190 on entry of process_tool_calls
CheckStop ==
    /\ pc = "CheckStop"
    /\ IF Breaks(response)
       THEN IF HasFirstText(response)
            THEN /\ printed' = response.content[1].text
                 /\ outcome' = "FinalAnswer"
                 /\ pc' = "LogCost"
                 /\ UNCHANGED << results, idx, current_tool_calls >>
            ELSE /\ outcome' = "Raised"
                 /\ pc' = "Done"
                 /\ UNCHANGED << printed, results, idx, current_tool_calls >>
       ELSE /\ results' = <<>>
            /\ current_tool_calls' = <<>>
            /\ idx' = 1
            /\ pc' = "ProcessToolCalls"
            /\ UNCHANGED << printed, outcome >>
    /\ UNCHANGED << run_args, updates, proc, blocks, no_agi, environment, os_environ, messages,
                    total_input_tokens, total_output_tokens, response, calls,
                    spawns, cost_logs >>

\* lines 192-224: one iteration of the for loop of process_tool_calls
ProcessToolCall ==
    /\ pc = "ProcessToolCalls"
    /\ idx <= Len(response.content)
    /\ LET tool_call == response.content[idx]
       IN  IF IsBashCall(tool_call)
           THEN \E run \in Outcomes(tool_call.input, no_agi) :
                LET h == _handle_bash_command(tool_call.input, environment,
                                              os_environ, no_agi, run)
                IN  /\ proc' = run
                    /\ current_tool_calls' =
                          Append(current_tool_calls,
                                 [command |-> ShownCommand(tool_call.input),
                                  id |-> tool_call.id])
                    /\ results' =
                          Append(results,
                                 [tool_call_id |-> tool_call.id,
                                  output |-> Envelope(tool_call.id, h.result)])
                    /\ environment' = h.environment
                    /\ spawns' = IF h.spawned THEN spawns + 1 ELSE spawns
           ELSE UNCHANGED << current_tool_calls, results, environment, spawns,
                             proc >>
    /\ idx' = idx + 1
    /\ UNCHANGED << run_args, updates, blocks, no_agi, os_environ, messages, total_input_tokens,
                    total_output_tokens, pc, response, calls, cost_logs,
                    printed, outcome >>

\* the first tool result is an error one
Aborts(tool_results) == tool_results[1].output.is_error

\* lines 226 and 292-304: process_tool_calls returns, the first result is
\* appended as a user message, and the loop leaves when it is an error.
\* The locals response, tool_results and the loop position are dead from
\* here on (the next iteration overwrites them) and are cleared.
AppendToolResults ==
    /\ pc = "ProcessToolCalls"
    /\ idx > Len(response.content)
    /\ IF results # <<>>
       THEN /\ messages' = Append(messages,
                                  [role |-> "user",
                                   content |-> << results[1].output >>])
            /\ IF Aborts(results)
               THEN pc' = "LogCost" /\ outcome' = "Aborted"
               ELSE pc' = "AwaitingResponse" /\ UNCHANGED outcome
       ELSE /\ pc' = "AwaitingResponse"
            /\ UNCHANGED << messages, outcome >>
    /\ response' = NoResponse
    /\ results' = <<>>
    /\ proc' = NoProc
    /\ idx' = 0
    /\ UNCHANGED << run_args, updates, blocks, no_agi, environment, os_environ, current_tool_calls,
                    total_input_tokens, total_output_tokens, calls, spawns,
                    cost_logs, printed >>

\* a run that returns without the cost summary
LogCost_Skipped ==
    /\ pc = "LogCost"
    /\ pc' = "Done"
    /\ UNCHANGED << run_args, updates, proc, blocks, no_agi, environment,
                    os_environ, messages, current_tool_calls,
                    total_input_tokens, total_output_tokens, response, results,
                    idx, calls, spawns, printed, outcome, cost_logs >>

\* line 307: SessionLogger.log_total_cost
LogCost ==
    /\ pc = "LogCost"
    /\ cost_logs' = cost_logs + 1
    /\ pc' = "Done"
    /\ UNCHANGED << run_args, updates, proc, blocks, no_agi, environment, os_environ, messages,
                    current_tool_calls, total_input_tokens,
                    total_output_tokens, response, results, idx, calls,
                    spawns, printed, outcome >>

\* the steps of a run in progress
RunStep ==
    \/ ProviderCall
    \/ ProviderFail
    \/ RecordUsage
    \/ AppendAssistant
    \/ CheckStop
    \/ ProcessToolCall
    \/ AppendToolResults
    \/ LogCost

Next ==
    \/ AmbientChange
    \/ \E p \in Prompts, h \in Histories : StartRun(p, h)
    \/ RunStep

Spec == Init /\ [][Next]_vars

-----------------------------------------------------------------------------
(* main.py, process_bot_response: the answer taken from the transcript once
   process_bash_command has returned *)

\* lines 122-125: the text of the first text block, "" when there is none
RECURSIVE FirstText(_)
FirstText(content) ==
    IF content = <<>> THEN <<>>
    ELSE IF Head(content).type = "text" THEN Head(content).text
    ELSE FirstText(Tail(content))

\* lines 119-126: the first text block of the last assistant message
RECURSIVE response_text(_)
response_text(msgs) ==
    IF msgs = <<>> THEN <<>>
    ELSE LET msg == msgs[Len(msgs)]
         IN  IF msg.role = "assistant" THEN FirstText(msg.content)
             ELSE response_text(SubSeq(msgs, 1, Len(msgs) - 1))

-----------------------------------------------------------------------------
(* The head of process_bash_command exercised alone: the message list of the
   first provider call, for any prompt and any history of up to MaxHistory
   turns *)

Roles == {"user", "assistant", "system"}
TurnTexts == { <<"hello">>, <<"hi", " ", "there">> }
Turns == [role : Roles, content : TurnTexts]

\* the histories of n turns
RECURSIVE HistoriesOfLen(_)
HistoriesOfLen(n) ==
    IF n = 0 THEN { <<>> }
    ELSE { Append(h, t) : h \in HistoriesOfLen(n - 1), t \in Turns }

AnyHistories == UNION { HistoriesOfLen(n) : n \in 0..MaxHistory }
AnyPrompts == { <<>>, <<"list", " ", "files">>, DryRunTag \o <<"ls">> }

FirstNext == \E p \in AnyPrompts, h \in AnyHistories : StartRun(p, h)

FirstSpec == Init /\ [][FirstNext]_vars

-----------------------------------------------------------------------------
(* main.py, the chat handler: a prompt typed into the chat input is appended
   to the stored history and handed to process_bot_response with it *)

\* st.chat_input yields a prompt that is not empty
ChatPrompts == { <<"list", " ", "files">>, <<"hello">> }

\* the text of the uploaded documents: empty when there is none
DocsContexts == { <<>>, <<"\n", "Reference documentation from", " ", "doc">> }

\* lines 112-113: the message put after the documentation
WithDocs(message, docs_context) ==
    IF Truthy(docs_context)
    THEN << "Using the following documentation as reference:", "\n" >>
           \o docs_context
           \o << "\n", "\n", "User query:", " " >> \o message
    ELSE message

\* lines 106-116: process_bot_response up to its call of
\* process_bash_command
process_bot_response(message, history, docs_context) ==
    StartRun(WithDocs(message, docs_context), history)

\* lines 221-223: the prompt is appended to the history, then handed over
\* together with that history
ChatInput(prompt, history, docs_context) ==
    process_bot_response(prompt,
                         Append(history, [role |-> "user", content |-> prompt]),
                         docs_context)

ChatNext ==
    \E p \in ChatPrompts, h \in AnyHistories, d \in DocsContexts :
        ChatInput(p, h, d)

ChatSpec == Init /\ [][ChatNext]_vars

-----------------------------------------------------------------------------
(* One session over several runs: process_bash_command returns, or re-raises,
   to its caller, and the session object is used for the next run.  The
   session is followed until its provider calls have returned MaxUpdates
   responses in total. *)

\* lines 307 and 312: the run is over and the session is idle again.  The
\* fields of the session stay as the run left them; the locals of the run
\* and the counts kept of it are gone.
Return ==
    /\ pc = "Done"
    /\ Len(updates) < MaxUpdates
    /\ pc' = "Idle"
    /\ response' = NoResponse
    /\ results' = <<>>
    /\ proc' = NoProc
    /\ idx' = 0
    /\ spawns' = 0
    /\ cost_logs' = 0
    /\ UNCHANGED << run_args, updates, blocks, no_agi, environment,
                    os_environ, messages, current_tool_calls,
                    total_input_tokens, total_output_tokens, calls, printed,
                    outcome >>

SessionStep == RunStep /\ Len(updates') <= MaxUpdates

SessionNext ==
    \/ \E p \in Prompts, h \in Histories : StartRun(p, h)
    \/ SessionStep
    \/ Return

SessionSpec == Init /\ [][SessionNext]_vars

-----------------------------------------------------------------------------
(* SessionLogger exercised alone: update_token_usage called with any counts *)

TokenCounts == 0..MaxTokens

LedgerAdd(input_tokens, output_tokens) ==
    /\ pc = "Idle"
    /\ Len(updates) < MaxUpdates
    /\ update_token_usage(input_tokens, output_tokens)
    /\ UNCHANGED << no_agi, environment, os_environ, messages,
                    current_tool_calls, pc, response, results, proc, idx,
                    calls, blocks, spawns, cost_logs, printed, outcome,
                    run_args >>

LedgerNext == \E a \in TokenCounts, b \in TokenCounts : LedgerAdd(a, b)

LedgerSpec == Init /\ [][LedgerNext]_vars

-----------------------------------------------------------------------------
(* Steps and states the properties speak about *)

\* process_tool_calls is at a bash invocation, which the step handles
AtBashCall ==
    /\ pc = "ProcessToolCalls"
    /\ idx <= Len(response.content)
    /\ IsBashCall(response.content[idx])

\* the invocation process_tool_calls is at
CurrentInput == response.content[idx].input

\* process_tool_calls has handled every block and is about to return
AtReturn == pc = "ProcessToolCalls" /\ idx > Len(response.content)

\* the run has ended
Ended == pc \in {"LogCost", "Done"}

\* the ids of the tool invocations of a response content
InvocationIds(content) ==
    { content[i].id : i \in { j \in 1..Len(content) : content[j].type = "tool_use" } }

\* the envelope of the bash invocation handled last
LastOutput == results[Len(results)].output
LastText == LastOutput.content[1].text

\* the bash invocation handled last
LastInput == response.content[idx - 1].input
AfterBashCall ==
    /\ pc = "ProcessToolCalls"
    /\ idx > 1
    /\ IsBashCall(response.content[idx - 1])

\* a tool invocation with an input error: an unknown capability, or a bash
\* invocation that neither restarts nor names a command
InputError(block) ==
    /\ block.type = "tool_use"
    /\ \/ block.name # "bash"
       \/ ~block.input.restart /\ ~Truthy(block.input.command)

\* the places of the transcript that hold a tool_result for an invocation id
ResultPlaces(msgs, id) ==
    { << m, k >> \in (1..Len(msgs)) \X (1..MaxBlocks) :
        /\ k <= Len(msgs[m].content)
        /\ msgs[m].content[k].type = "tool_result"
        /\ msgs[m].content[k].tool_use_id = id }

-----------------------------------------------------------------------------
(* C1 *)

\* the steps a run in the given position takes at most before it is done: a
\* round is a call, three steps on the response, a step for each block and
\* the return of the router
RoundSteps == MaxBlocks + 6
StepsLeft ==
    IF pc = "Done" THEN 0
    ELSE IF pc = "LogCost" THEN 1
    ELSE IF pc = "Idle" THEN (MaxRounds + 1) * RoundSteps + 2
    ELSE (MaxRounds - calls) * RoundSteps + 2 +
         (CASE pc = "AwaitingResponse" -> 0
            [] pc = "RecordUsage" -> MaxBlocks + 4
            [] pc = "AppendAssistant" -> MaxBlocks + 3
            [] pc = "CheckStop" -> MaxBlocks + 2
            [] pc = "ProcessToolCalls" -> MaxBlocks + 2 - idx)

\* C1: a run whose response sequence holds a response that is not a tool-use
\* one ends after finitely many provider calls: the loop leaves at the first
\* such response, an ended run makes no provider call, every step of a run
\* brings its end nearer (StepsLeft decreases and is never negative), and a
\* run that has not ended has a step to take.
C1_Terminates ==
    /\ [][(pc = "CheckStop" /\ response.stop_reason # "tool_use") => Ended']_vars
    /\ [][Ended => (Ended' /\ calls' = calls)]_vars
    /\ [][pc # "Idle" => (StepsLeft' < StepsLeft /\ StepsLeft' >= 0)]_vars
    /\ [](pc \notin {"Idle", "Done"} => ENABLED RunStep)

\* a run ended with a final answer at its second or later provider call
C1_Witness == pc = "Done" /\ outcome = "FinalAnswer" /\ calls >= 2

-----------------------------------------------------------------------------
(* C2 *)

\* C2 (as claimed): when any tool invocation of a round produced an error
\* result, the run ends Aborted in that round.
C2_AnyErrorAborts ==
    [][(AtReturn /\ \E k \in 1..Len(results) : results[k].output.is_error)
         => (outcome' = "Aborted" /\ Ended')]_vars

-----------------------------------------------------------------------------
(* C3 *)

\* C3 (as claimed): when a tool-use round hands over to the next provider
\* call or ends the run, the transcript holds exactly one tool_result for
\* each tool invocation id of the round's response.
C3_OneResultPerInvocation ==
    [][AtReturn =>
         \A id \in InvocationIds(response.content) :
             Cardinality(ResultPlaces(messages', id)) = 1]_vars

-----------------------------------------------------------------------------
(* C4 *)

\* C4 (as claimed): in dry-run mode every bash invocation, whatever its
\* input, spawns no subprocess, leaves the environment unchanged and yields a
\* non-error content that starts with the dry-run marker.
C4_DryRunWhateverInput ==
    [][(no_agi /\ AtBashCall) =>
         /\ spawns' = spawns
         /\ environment' = environment
         /\ ~LastOutput'.is_error
         /\ StartsWith(LastText', DryRunMarker)]_vars

\* C4 (amended): in dry-run mode no bash invocation spawns a subprocess, and
\* an invocation without the restart flag and with a non-empty command leaves
\* the environment unchanged and yields a non-error content that starts with
\* the dry-run marker.
C4_DryRun ==
    [][(no_agi /\ AtBashCall) =>
         /\ spawns' = spawns
         /\ (~CurrentInput.restart /\ Truthy(CurrentInput.command)) =>
               /\ environment' = environment
               /\ ~LastOutput'.is_error
               /\ StartsWith(LastText', DryRunMarker)]_vars

\* a dry-run session has described a command, with the ambient environment
\* changed since construction
C4_Witness ==
    /\ no_agi /\ AfterBashCall
    /\ ~LastInput.restart /\ Truthy(LastInput.command)
    /\ StartsWith(LastText, DryRunMarker)
    /\ environment # os_environ
    /\ spawns = 0

-----------------------------------------------------------------------------
(* C5 *)

\* C5: a bash invocation with the restart flag replaces the environment by
\* the ambient one, yields the fixed confirmation as a non-error result and
\* spawns no subprocess, whatever its command.
C5_Restart ==
    [][(AtBashCall /\ CurrentInput.restart) =>
         /\ environment' = os_environ
         /\ spawns' = spawns
         /\ ~LastOutput'.is_error
         /\ LastText' = RestartedText]_vars

\* a restart that carried a command has replaced an environment that
\* differed from the ambient one
C5_Witness ==
    /\ AfterBashCall
    /\ LastInput.restart /\ Truthy(LastInput.command)
    /\ LastText = RestartedText
    /\ environment = "env1"
    /\ ~no_agi

-----------------------------------------------------------------------------
(* C6 *)

\* C6: a command that is executed and exits with status 0 yields an envelope
\* that is no error and whose text is the trimmed stdout.
C6_ExitZero ==
    [][(AtBashCall /\ spawns' # spawns /\ ~proc'.raises /\ proc'.returncode = 0) =>
         /\ ~LastOutput'.is_error
         /\ LastText' = strip(proc'.stdout)]_vars

\* a command wrote to stdout and to stderr and exited with status 0
C6_Witness ==
    /\ AfterBashCall /\ spawns > 0
    /\ ~proc.raises /\ proc.returncode = 0
    /\ proc.stdout = <<" ", "hi", "\n">> /\ strip(proc.stderr) # <<>>
    /\ LastText = <<"hi">>

-----------------------------------------------------------------------------
(* C7 *)

\* C7: a command that is executed and exits with a status other than 0
\* yields an error envelope whose text is the trimmed stderr, or the generic
\* message when the trimmed stderr is empty.
C7_ExitNonZero ==
    [][(AtBashCall /\ spawns' # spawns /\ ~proc'.raises /\ proc'.returncode # 0) =>
         /\ LastOutput'.is_error
         /\ LastText' = IF strip(proc'.stderr) = <<>> THEN FailedText
                         ELSE strip(proc'.stderr)]_vars

\* a command wrote to stdout only and failed: the generic message is the text
C7_Witness ==
    /\ AfterBashCall /\ spawns > 0
    /\ ~proc.raises /\ proc.returncode # 0
    /\ proc.stdout # <<>> /\ strip(proc.stderr) = <<>>
    /\ LastOutput.is_error /\ LastText = FailedText

-----------------------------------------------------------------------------
(* C8 *)

\* C8: a bash invocation without the restart flag and without a command (an
\* empty or an absent one) yields the no-command error, spawns no subprocess
\* and leaves the environment unchanged.
C8_NoCommand ==
    [][(AtBashCall /\ ~CurrentInput.restart /\ ~Truthy(CurrentInput.command)) =>
         /\ LastOutput'.is_error
         /\ LastText' = NoCommandText
         /\ spawns' = spawns
         /\ environment' = environment]_vars

\* an invocation with an empty command was answered with the no-command
\* error, in a dry-run session
C8_Witness ==
    /\ AfterBashCall
    /\ ~LastInput.restart /\ LastInput.command = <<>>
    /\ LastOutput.is_error /\ LastText = NoCommandText
    /\ no_agi

-----------------------------------------------------------------------------
(* C9 *)

\* C9 (as claimed): a failure raised while a bash invocation is handled
\* yields an error envelope that carries the failure's message, for every
\* message.
C9_FailureIsError ==
    [][(AtBashCall /\ proc'.raises) =>
         /\ LastOutput'.is_error
         /\ LastText' = proc'.message]_vars

-----------------------------------------------------------------------------
(* C10 *)

\* C10 (as claimed): a round whose response holds an invocation with an input
\* error delivers a tool error for it in the transcript and goes on to a
\* further provider call.
C10_InputErrorContinues ==
    [][AtReturn =>
         \A i \in 1..Len(response.content) :
             InputError(response.content[i]) =>
                 /\ pc' = "AwaitingResponse"
                 /\ \E pl \in ResultPlaces(messages', response.content[i].id) :
                        messages'[pl[1]].content[pl[2]].is_error]_vars

-----------------------------------------------------------------------------
(* C11 *)

\* the block is a tool invocation that declares the bash capability
NamesBash(block) == block.type = "tool_use" /\ block.name = "bash"

\* the ids of the bash invocations of a content, in its order
RECURSIVE BashIds(_)
BashIds(content) ==
    IF content = <<>> THEN <<>>
    ELSE (IF NamesBash(Head(content)) THEN << Head(content).id >> ELSE <<>>)
         \o BashIds(Tail(content))

\* the invocation ids of a list of router results, in its order
ResultIds(rs) == [k \in 1..Len(rs) |-> rs[k].output.tool_use_id]

\* C11: the router passes over a block that is not a bash invocation without
\* executing, enveloping or leaving the loop; the envelopes it holds are those
\* of the bash invocations handled so far, in the order supplied; and a
\* response without a bash invocation does not end the run.
C11_RouterSkips ==
    /\ [][(pc = "ProcessToolCalls" /\ idx <= Len(response.content)
            /\ ~NamesBash(response.content[idx])) =>
              /\ results' = results
              /\ current_tool_calls' = current_tool_calls
              /\ spawns' = spawns
              /\ environment' = environment
              /\ pc' = "ProcessToolCalls" /\ idx' = idx + 1]_vars
    /\ [][(AtReturn /\ BashIds(response.content) = <<>>) =>
              (pc' = "AwaitingResponse" /\ outcome' = "none")]_vars
    /\ [](pc = "ProcessToolCalls" =>
              ResultIds(results) = BashIds(SubSeq(response.content, 1, idx - 1)))

\* the router has passed over an unknown capability and a text block and
\* holds the envelope of the bash invocation between them
C11_Witness ==
    /\ AtReturn
    /\ Len(response.content) = 3
    /\ response.content[1].type = "tool_use" /\ response.content[1].name # "bash"
    /\ NamesBash(response.content[2])
    /\ response.content[3].type = "text"
    /\ ResultIds(results) = << response.content[2].id >>

-----------------------------------------------------------------------------
(* C12 *)

\* a counter of a fresh ledger after the first n of the updates; col is 1
\* for the input counter and 2 for the output counter
RECURSIVE CounterAfter(_, _, _)
CounterAfter(us, n, col) ==
    IF n = 0 THEN 0 ELSE AddTokens(CounterAfter(us, n - 1, col), us[n][col])

\* C12: after update_token_usage(a, b) and then update_token_usage(c, d) the
\* counters are those a single update_token_usage(a + c, b + d) gives from
\* the state before the two.
C12_Additive ==
    Len(updates) >= 2 =>
        LET n == Len(updates)
            ab == updates[n - 1]
            cd == updates[n]
        IN  /\ total_input_tokens =
                  AddTokens(CounterAfter(updates, n - 2, 1), ab[1] + cd[1])
            /\ total_output_tokens =
                  AddTokens(CounterAfter(updates, n - 2, 2), ab[2] + cd[2])

\* a ledger that held (1, 2) was updated with (2, 0) and then with (1, 2)
C12_Witness ==
    /\ updates = << << 1, 2 >>, << 2, 0 >>, << 1, 2 >> >>
    /\ total_input_tokens = 4
    /\ total_output_tokens = 4

-----------------------------------------------------------------------------
(* C13 *)

\* the token counts of the response at hand
UsageOf(resp) == << resp.usage.input_tokens, resp.usage.output_tokens >>

\* the assistant messages of the transcript
Assistants(msgs) == SelectSeq(msgs, LAMBDA m : m.role = "assistant")

\* C13: a provider call that returns is followed at once by one ledger update
\* with the usage of its response, before the assistant turn is appended,
\* before any tool runs and before the run's outcome is decided; the ledger
\* is updated nowhere else, so there is one update per returned call; the
\* two counters never decrease.
C13_LedgerPerCall ==
    /\ [][(calls' = calls + 1 /\ response' # NoResponse)
            => (pc' = "RecordUsage" /\ updates' = updates)]_vars
    /\ [][pc = "RecordUsage"
            => /\ updates' = Append(updates, UsageOf(response))
               /\ total_input_tokens' =
                     total_input_tokens + response.usage.input_tokens
               /\ total_output_tokens' =
                     total_output_tokens + response.usage.output_tokens
               /\ UNCHANGED << messages, spawns, outcome, environment,
                               calls, response >>]_vars
    /\ [][pc # "RecordUsage"
            => UNCHANGED << updates, total_input_tokens,
                            total_output_tokens >>]_vars
    /\ [][/\ total_input_tokens' >= total_input_tokens
          /\ total_output_tokens' >= total_output_tokens]_vars
    /\ [](pc = "RecordUsage"
            => /\ Len(updates) = calls - 1
               /\ Len(Assistants(messages)) =
                     Len(Assistants(ApiMessages(run_args.conversation_history)))
                       + calls - 1)
    /\ [](pc \in {"AppendAssistant", "CheckStop", "ProcessToolCalls",
                   "AwaitingResponse", "LogCost"}
            => Len(updates) = calls)

\* a run of two returned calls that ended Aborted: two updates of (3, 5)
C13_Witness ==
    /\ pc = "Done"
    /\ outcome = "Aborted"
    /\ calls = 2
    /\ updates = << << 3, 5 >>, << 3, 5 >> >>
    /\ total_input_tokens = 6
    /\ total_output_tokens = 10

-----------------------------------------------------------------------------
(* C14 *)

\* C14: a run that ends FinalAnswer or Aborted writes the cost summary once,
\* as its last step: nothing is written before the outcome is decided, the
\* write follows the outcome, and no provider call, ledger update or
\* transcript change comes after it.
C14_CostSummaryOnce ==
    /\ [](pc # "Done" => cost_logs = 0)
    /\ []((pc = "Done" /\ outcome \in {"FinalAnswer", "Aborted"})
            => cost_logs = 1)
    /\ [](outcome \in {"FinalAnswer", "Aborted"} => pc \in {"LogCost", "Done"})
    /\ [](pc = "LogCost" => (outcome \in {"FinalAnswer", "Aborted"}
                               /\ ENABLED LogCost))
    /\ [][cost_logs' # cost_logs
            => /\ pc = "LogCost"
               /\ pc' = "Done"
               /\ cost_logs' = cost_logs + 1
               /\ UNCHANGED << updates, total_input_tokens,
                               total_output_tokens, calls, messages,
                               outcome >>]_vars
    /\ [][cost_logs >= 1
            => UNCHANGED << updates, total_input_tokens, total_output_tokens,
                            calls, messages, cost_logs >>]_vars

\* a run that ended with a final answer at its second call wrote one summary
C14_Witness ==
    /\ pc = "Done"
    /\ outcome = "FinalAnswer"
    /\ calls = 2
    /\ Len(updates) = 2
    /\ cost_logs = 1

-----------------------------------------------------------------------------
(* C15 *)

\* the provider call raises: a call is made and no response comes back
CallFaults == pc = "AwaitingResponse" /\ calls' = calls + 1
                  /\ response' = NoResponse

\* the response that ends the loop cannot be read: response.content[0].text
\* raises
ResponseFaults == pc = "CheckStop" /\ response.stop_reason # "tool_use"
                      /\ ~HasFirstText(response)

\* C15: a provider call that raises, or a final response that cannot be
\* read, ends the run by re-raising: the run has no normal outcome, writes
\* no cost summary, and takes no further step, so no further provider call.
C15_FaultsReRaised ==
    /\ [][(CallFaults \/ ResponseFaults)
            => /\ outcome' = "Raised"
               /\ pc' = "Done"
               /\ UNCHANGED << cost_logs, printed, messages >>]_vars
    /\ [](outcome = "Raised"
            => /\ pc = "Done"
               /\ cost_logs = 0
               /\ printed = None
               /\ ~ ENABLED Next)

\* the second provider call of a run raised after a tool round that ran a
\* command
C15_Witness ==
    /\ outcome = "Raised"
    /\ calls = 2
    /\ Len(updates) = 1
    /\ spawns = 1
    /\ messages[Len(messages)].role = "user"
    /\ Len(messages) > Len(ApiMessages(run_args.conversation_history)) + 1

-----------------------------------------------------------------------------
(* C16 *)

\* the content holds a text block
HasText(content) == \E i \in 1..Len(content) : content[i].type = "text"

\* the loop is at the stop test with a response that is not a tool-use one
AtFinalResponse == pc = "CheckStop" /\ response.stop_reason # "tool_use"

\* C16 (as claimed): a response whose stop reason is not tool_use and that
\* holds a text block, first or not, ends the run in FinalAnswer, and the
\* answer taken for the turn is the first text block of that response.
C16_FirstTextBlockIsAnswer ==
    [][(AtFinalResponse /\ HasText(response.content))
         => /\ outcome' = "FinalAnswer"
            /\ response_text(messages') = FirstText(response.content)]_vars

-----------------------------------------------------------------------------
(* C17 *)

\* C17 (as claimed): a final response whose first block is not a text block,
\* or whose content is empty, ends the run without a fault and with an empty
\* answer.
C17_SilentEmptyAnswer ==
    [][(AtFinalResponse /\ ~HasFirstText(response))
         => /\ outcome' = "FinalAnswer"
            /\ response_text(messages') = <<>>]_vars

\* C17 (amended): a final response that holds no text block at all ends the
\* run by a fault: the ledger update and the assistant turn of that response
\* are in place, nothing is printed, no cost summary is written and the run
\* has no normal outcome.
C17_NoTextRaises ==
    [][(AtFinalResponse /\ ~HasText(response.content))
         => /\ outcome' = "Raised"
            /\ pc' = "Done"
            /\ printed' = None
            /\ cost_logs' = 0
            /\ messages' = messages
            /\ messages[Len(messages)] =
                  [role |-> "assistant", content |-> response.content]
            /\ Len(updates) = calls]_vars

\* the second response of a run is a final one that holds one tool
\* invocation and no text, and the run ended by a fault
C17_Witness ==
    /\ pc = "Done"
    /\ outcome = "Raised"
    /\ calls = 2
    /\ response.stop_reason = "end_turn"
    /\ Len(response.content) = 1
    /\ response.content[1].type = "tool_use"
    /\ cost_logs = 0

-----------------------------------------------------------------------------
(* C18 *)

\* the message holds a tool_result for one of the ids
CarriesResultFor(msg, ids) ==
    /\ msg.role = "user"
    /\ \E k \in 1..Len(msg.content) :
          /\ msg.content[k].type = "tool_result"
          /\ msg.content[k].tool_use_id \in ids

\* C18 (as claimed): in the message list of every provider call after the
\* first, each assistant message that holds a tool-use block is followed at
\* once by a user message with a tool_result for one of its invocation ids;
\* so no such call has a tool-use assistant message last.
C18_ToolResultFollows ==
    (pc = "AwaitingResponse" /\ calls >= 1) =>
        \A i \in 1..Len(messages) :
            (messages[i].role = "assistant"
               /\ InvocationIds(messages[i].content) # {})
            => /\ i < Len(messages)
               /\ CarriesResultFor(messages[i + 1],
                                   InvocationIds(messages[i].content))

-----------------------------------------------------------------------------
(* C19 *)

\* C19: a step that changes the session environment is the handling of a
\* bash invocation with the restart flag; executing a command, a dry run, a
\* no-command error, a caught failure, a provider call and the start of a
\* run leave it as it is.
C19_OnlyRestartChangesEnvironment ==
    [][environment' # environment
         => (AtBashCall /\ CurrentInput.restart)]_vars

\* the ambient environment differs from the session's, a command was run
\* and left with a non-zero status, and the session's environment is the one
\* of its construction
C19_Witness ==
    /\ AfterBashCall
    /\ ~LastInput.restart
    /\ spawns = 1
    /\ ~proc.raises
    /\ proc.returncode = 1
    /\ os_environ = "env1"
    /\ environment = "env0"

-----------------------------------------------------------------------------
(* C20 *)

\* the turns of the history with role user or assistant, in history order
KeptTurns(history) ==
    SelectSeq(history, LAMBDA t : t.role \in {"user", "assistant"})

\* C20: the message list of the first provider call is one message per user
\* or assistant turn of the history, in order, each with a single text block
\* of the turn's content, then one user message with a single text block:
\* the prompt, after the dry-run tag when the session is in dry-run mode and
\* as it is otherwise.
C20_FirstMessageList ==
    (pc = "AwaitingResponse" /\ calls = 0) =>
        LET kept == KeptTurns(run_args.conversation_history)
            last == messages[Len(messages)]
        IN  /\ Len(messages) = Len(kept) + 1
            /\ \A i \in 1..Len(kept) :
                  /\ messages[i].role = kept[i].role
                  /\ messages[i].content =
                        << [type |-> "text", text |-> kept[i].content] >>
            /\ last.role = "user"
            /\ Len(last.content) = 1
            /\ last.content[1].type = "text"
            /\ no_agi =>
                  last.content[1].text = DryRunTag \o run_args.bash_prompt
            /\ ~no_agi => last.content[1].text = run_args.bash_prompt

\* a dry-run session started on a history of a system turn and a user turn:
\* the list holds the user turn and the tagged prompt
C20_Witness ==
    /\ pc = "AwaitingResponse"
    /\ calls = 0
    /\ no_agi
    /\ Len(run_args.conversation_history) = 2
    /\ run_args.conversation_history[1].role = "system"
    /\ run_args.conversation_history[2].role = "user"
    /\ Len(messages) = 2
    /\ StartsWith(messages[2].content[1].text, DryRunTag)

-----------------------------------------------------------------------------
(* C21 *)

\* the message is a user message that carries one tool_result
IsToolResultTurn(msg) ==
    /\ msg.role = "user"
    /\ Len(msg.content) = 1
    /\ msg.content[1].type = "tool_result"

\* C21: within a run every step leaves the transcript as it is or appends
\* one message to it, the assistant turn of the response at hand or a
\* tool-result turn; so the message list of each provider call after the
\* first is the list of the previous call, unchanged, followed by the
\* assistant turn and then by at most one tool-result turn.
C21_AppendOnly ==
    /\ [][pc # "Idle"
            => \/ messages' = messages
               \/ /\ pc = "AppendAssistant"
                  /\ messages' =
                        Append(messages, [role |-> "assistant",
                                          content |-> response.content])
               \/ /\ AtReturn
                  /\ Len(messages') = Len(messages) + 1
                  /\ SubSeq(messages', 1, Len(messages)) = messages
                  /\ IsToolResultTurn(messages'[Len(messages')])
                  /\ messages[Len(messages)].role = "assistant"]_vars
    /\ [][(pc = "AwaitingResponse" /\ calls' = calls + 1)
            => messages' = messages]_vars
    /\ [](pc = "RecordUsage"
            => LET sent == Len(ApiMessages(run_args.conversation_history)) + 1
                   added == Len(messages) - sent
               IN  /\ added >= calls - 1
                   /\ added <= 2 * (calls - 1)
                   /\ \A i \in (sent + 1)..Len(messages) :
                         \/ messages[i].role = "assistant"
                         \/ /\ IsToolResultTurn(messages[i])
                            /\ messages[i - 1].role = "assistant")

\* the third provider call of a run is about to be made with the first list
\* followed by two assistant turns, each with its tool-result turn
C21_Witness ==
    /\ pc = "AwaitingResponse"
    /\ calls = 2
    /\ Len(messages) =
          Len(ApiMessages(run_args.conversation_history)) + 5
    /\ messages[Len(messages)].role = "user"
    /\ messages[Len(messages) - 1].role = "assistant"
    /\ messages[Len(messages) - 2].role = "user"
    /\ messages[Len(messages) - 3].role = "assistant"

-----------------------------------------------------------------------------
(* C22 *)

\* the text ends with the given text
EndsWith(s, p) ==
    Len(s) >= Len(p) /\ SubSeq(s, Len(s) - Len(p) + 1, Len(s)) = p

\* the history the chat handler handed over ends with the turn of the new
\* prompt; the stored history is what comes before it
HandedHistory == run_args.conversation_history
NewUserMessage == HandedHistory[Len(HandedHistory)].content
StoredHistory == SubSeq(HandedHistory, 1, Len(HandedHistory) - 1)

\* the places of the list where a user message carries the text
PlacesOf(msgs, text) ==
    { i \in 1..Len(msgs) :
        msgs[i].role = "user" /\ EndsWith(msgs[i].content[1].text, text) }

\* two user messages in a row
ConsecutiveUsers(msgs) ==
    \E i \in 1..(Len(msgs) - 1) :
        msgs[i].role = "user" /\ msgs[i + 1].role = "user"

\* C22 (as claimed): when the chat handler starts a run on a stored history
\* that does not hold the prompt and has no two user turns in a row, the
\* message list of the first provider call holds the new user message
\* exactly once and no two user messages in a row.
C22_PromptOnce ==
    (/\ pc = "AwaitingResponse"
     /\ calls = 0
     /\ PlacesOf(ApiMessages(StoredHistory), NewUserMessage) = {}
     /\ ~ConsecutiveUsers(ApiMessages(StoredHistory))
     /\ (StoredHistory # <<>> =>
           StoredHistory[Len(StoredHistory)].role = "assistant"))
    => /\ Cardinality(PlacesOf(messages, NewUserMessage)) = 1
       /\ ~ConsecutiveUsers(messages)

-----------------------------------------------------------------------------
(* C23 *)

\* the messages the run at hand has added to the list of its first call
AddedByRun ==
    SubSeq(messages, Len(ApiMessages(run_args.conversation_history)) + 2,
           Len(messages))

\* the bash invocations of the assistant turns of a message list, as
\* current_tool_calls records them
BashCallsOf(msgs) ==
    UNION { { [command |-> ShownCommand(msgs[i].content[k].input),
               id |-> msgs[i].content[k].id] :
              k \in { j \in 1..Len(msgs[i].content) :
                        IsBashCall(msgs[i].content[j]) } } :
            i \in { j \in 1..Len(msgs) : msgs[j].role = "assistant" } }

\* C23 (as claimed): when a run of a session completes, every entry of
\* current_tool_calls is a bash invocation the provider requested in that
\* run; a run in which the provider requested no tool leaves the list empty.
C23_OnlyThisRunsCalls ==
    (pc = "Done" /\ outcome \in {"FinalAnswer", "Aborted"})
    => \A k \in 1..Len(current_tool_calls) :
          current_tool_calls[k] \in BashCallsOf(AddedByRun)

====
